---------------------------- MODULE Spec2Model ----------------------------
(***************************************************************************)
(* A model of the two scripts of the repository:                           *)
(*   Feature/feature.py    the Feature toggle (enable, disable,            *)
(*                         is_available, apply)                            *)
(*   pyscripts/myscript.py the command-line script (parse_args, main,      *)
(*                         greet, add_numbers, read_file)                  *)
(* The two programs share nothing; each has its own specification          *)
(* (Spec for the Feature object, SpecScript for one run of the script).    *)
(***************************************************************************)
EXTENDS Integers, Sequences, FiniteSets, TLC

VARIABLES
    feature,      \* the Feature instance: its five dataclass fields
    ctor_enabled, \* the enabled argument given to the constructor (None if omitted)
    lastToggle,   \* history: the most recent of the enable()/disable() calls
    call,         \* the most recent method call: arguments, outcome, log records
    pc,           \* myscript.py: position of main
    args,         \* myscript.py: the parsed argparse.Namespace
    todo,         \* myscript.py: what is left of the running loop's iterator
    stdout        \* myscript.py: the lines printed so far

featureVars == <<feature, ctor_enabled, lastToggle, call>>
scriptVars == <<pc, args, todo, stdout>>
vars == <<feature, ctor_enabled, lastToggle, call, pc, args, todo, stdout>>

(***************************************************************************)
(* Bounds of the model.                                                    *)
(***************************************************************************)
MaxDeps == 2      \* longest dependencies list a Feature is constructed with
MaxRepeat == 4    \* largest --repeat value given on the command line
MinRepeat == 2    \* the smallest --repeat value given is -MinRepeat

(***************************************************************************)
(* Python values.  Optional[T] is a sequence of length 0 (None) or 1.      *)
(* A datum is tagged with its Python type: a str is its sequence of        *)
(* characters, an int is an integer.                                       *)
(***************************************************************************)
None == <<>>
Some(x) == <<x>>
Optional(S) == {None} \cup {Some(x) : x \in S}

StrVal(chars) == <<"str", chars>>
IntVal(n) == <<"int", n>>
isinstance(d, type) == d[1] = type

Range(s) == {s[i] : i \in DOMAIN s}

Lower == <<"a","b","c","d","e","f","g","h","i","j","k","l","m",
           "n","o","p","q","r","s","t","u","v","w","x","y","z">>
Upper == <<"A","B","C","D","E","F","G","H","I","J","K","L","M",
           "N","O","P","Q","R","S","T","U","V","W","X","Y","Z">>

\* str.upper() on one character: lowercase letters are mapped, others kept
upper_char(c) ==
    IF c \in Range(Lower)
    THEN Upper[CHOOSE i \in DOMAIN Lower : Lower[i] = c]
    ELSE c

\* str.upper()
str_upper(chars) == [i \in DOMAIN chars |-> upper_char(chars[i])]

Digit == <<"0","1","2","3","4","5","6","7","8","9">>

RECURSIVE digits(_)
digits(n) ==
    IF n < 10 THEN <<Digit[n + 1]>>
    ELSE digits(n \div 10) \o <<Digit[(n % 10) + 1]>>

\* format(d) inside an f-string: a str as it is, an int in decimal
format(d) ==
    IF isinstance(d, "str") THEN d[2]
    ELSE IF d[2] < 0 THEN <<"-">> \o digits(-d[2]) ELSE digits(d[2])

(***************************************************************************)
(* Inputs.                                                                 *)
(***************************************************************************)
FeatureNames == {"uppercase", "dependent"}
Descriptions == {"", "Uppercase string inputs"}

Data == { StrVal(<<"h","e","l","l","o">>), StrVal(<<"d","a","t","a">>), IntVal(42) }

RECURSIVE SeqsUpTo(_, _)
SeqsUpTo(S, n) ==
    IF n = 0 THEN {<<>>}
    ELSE LET shorter == SeqsUpTo(S, n - 1)
         IN  shorter \cup {Append(s, x) : s \in shorter, x \in S}

\* the dependencies lists: any order, duplicates allowed
DepLists == SeqsUpTo(FeatureNames, MaxDeps)

\* the active-feature sets a caller passes
ActiveSets == SUBSET FeatureNames

(***************************************************************************)
(* Transformers.  The field is Optional[Callable[[Any], Any]]: a           *)
(* transformer is named, "None" is the absent one.  Calling one either     *)
(* returns a value or raises; a raised exception is an instance of         *)
(* Exception or of BaseException only (SystemExit, KeyboardInterrupt,      *)
(* GeneratorExit).                                                         *)
(***************************************************************************)
Transformers ==
    { "None",
      "to_upper",        \* the example's to_upper
      "bracket",         \* the example's lambda s: f"[{s}]"
      "strict_upper",    \* lambda s: s.upper(): AttributeError on a non-str
      "raise_exception", \* always raises an Exception
      "raise_base" }     \* always raises a BaseException that is no Exception

Returns(v) == [outcome |-> "return", value |-> v]
Raises(cls) == [outcome |-> "raise", value |-> cls]

to_upper(s) ==
    IF isinstance(s, "str") THEN Returns(StrVal(str_upper(s[2])))
    ELSE Returns(s)

bracket(s) == Returns(StrVal(<<"[">> \o format(s) \o <<"]">>))

\* self.transformer(data)
transformer_call(t, data) ==
    CASE t = "to_upper" -> to_upper(data)
      [] t = "bracket" -> bracket(data)
      [] t = "strict_upper" ->
            IF isinstance(data, "str") THEN Returns(StrVal(str_upper(data[2])))
            ELSE Raises("Exception")
      [] t = "raise_exception" -> Raises("Exception")
      [] t = "raise_base" -> Raises("BaseException")

(***************************************************************************)
(* class Feature                                                           *)
(***************************************************************************)
\* the dataclass constructor; enabled defaults to False
Feature(name, enabled, dependencies, transformer, description) ==
    [ name |-> name,
      enabled |-> IF enabled = None THEN FALSE ELSE enabled[1],
      dependencies |-> dependencies,
      transformer |-> transformer,
      description |-> description ]

Log(level, msg) == [level |-> level, msg |-> msg]

\* the state a method leaves behind: the object, how the call ended
\* ("return" with a value, "raise" with the exception's class), the number
\* of transformer calls it made, its log records, and the caller's
\* active-feature set after it
Result(self, outcome, value, invoked, log, active) ==
    [ self |-> self, outcome |-> outcome, value |-> value,
      invoked |-> invoked, log |-> log, active |-> active ]

enable_toggles(self) ==
    Result([self EXCEPT !.enabled = ~self.enabled], "return", None, 0,
           <<Log("info", "enabled")>>, None)

enable(self) ==
    Result([self EXCEPT !.enabled = TRUE], "return", None, 0,
           <<Log("info", "enabled")>>, None)

disable_forgets(self) ==
    Result(self, "return", None, 0, <<Log("info", "disabled")>>, None)

disable(self) ==
    Result([self EXCEPT !.enabled = FALSE], "return", None, 0,
           <<Log("info", "disabled")>>, None)

is_available_any(self, active_features) ==
    LET deps == Range(self.dependencies)
        missing == deps \ active_features
    IN  IF missing # {} /\ missing = deps
        THEN Result(self, "return", FALSE, 0,
                    <<Log("debug", "missing dependencies")>>, active_features)
        ELSE Result(self, "return", TRUE, 0, <<>>, active_features)

is_available(self, active_features) ==
    LET missing == Range(self.dependencies) \ active_features
    IN  IF missing # {}
        THEN Result(self, "return", FALSE, 0,
                    <<Log("debug", "missing dependencies")>>, active_features)
        ELSE Result(self, "return", TRUE, 0, <<>>, active_features)

\* the try/except around the transformer call
try_transformer_uncaught(self, data, active) ==
    LET r == transformer_call(self.transformer, data)
    IN  IF r.outcome = "return"
        THEN Result(self, "return", r.value, 1,
                    <<Log("info", "applied successfully")>>, active)
        ELSE Result(self, "raise", r.value, 1, <<>>, active)

try_transformer_discards(self, data, active) ==
    LET r == transformer_call(self.transformer, data)
    IN  IF r.outcome = "return"
        THEN Result(self, "return", data, 1,
                    <<Log("info", "applied successfully")>>, active)
        ELSE IF r.value = "Exception"
        THEN Result(self, "return", data, 1,
                    <<Log("error", "transformer raised an exception")>>, active)
        ELSE Result(self, "raise", r.value, 1, <<>>, active)

try_transformer_disables(self, data, active) ==
    LET r == transformer_call(self.transformer, data)
    IN  IF r.outcome = "return"
        THEN Result(self, "return", r.value, 1,
                    <<Log("info", "applied successfully")>>, active)
        ELSE IF r.value = "Exception"
        THEN Result([self EXCEPT !.enabled = FALSE], "return", data, 1,
                    <<Log("error", "transformer raised an exception")>>, active)
        ELSE Result(self, "raise", r.value, 1, <<>>, active)

try_transformer(self, data, active) ==
    LET r == transformer_call(self.transformer, data)
    IN  IF r.outcome = "return"
        THEN Result(self, "return", r.value, 1,
                    <<Log("info", "applied successfully")>>, active)
        ELSE IF r.value = "Exception"
        \* except Exception: logged, the original data returned
        THEN Result(self, "return", data, 1,
                    <<Log("error", "transformer raised an exception")>>, active)
        \* not an instance of Exception: the handler does not match
        ELSE Result(self, "raise", r.value, 1, <<>>, active)

\* apply from "if self.transformer is None" on
apply_available(self, data, active_features) ==
    IF self.transformer = "None"
    THEN Result(self, "return", data, 0,
                <<Log("debug", "no transformer")>>, active_features)
    ELSE try_transformer(self, data, active_features)

apply_unchecked(self, data, active_features) ==
    apply_available(self, data, active_features)

\* apply from "if not self.is_available(active_features)" on
apply_checked(self, data, active_features) ==
    LET a == is_available(self, active_features)
    IN  IF ~a.value
        THEN Result(a.self, "return", data, 0,
                    a.log \o <<Log("debug", "unavailable due to dependencies")>>,
                    a.active)
        ELSE LET r == apply_available(a.self, data, a.active)
             IN  [r EXCEPT !.log = a.log \o r.log]

default_active_all(active_features) ==
    IF active_features = None THEN FeatureNames ELSE active_features[1]

\* "if active_features is None: active_features = set()"
default_active(active_features) ==
    IF active_features = None THEN {} ELSE active_features[1]

apply_ignores_enabled(self, data, active_features) ==
    LET r == apply_checked(self, data, default_active(active_features))
    IN  [r EXCEPT !.active =
             IF active_features = None THEN None ELSE Some(r.active)]

\* apply(data, active_features=None); the caller's argument is an
\* Optional set, and the set built for None is local to the call
apply(self, data, active_features) ==
    IF ~self.enabled
    THEN Result(self, "return", data, 0,
                <<Log("debug", "disabled")>>, active_features)
    ELSE LET r == apply_checked(self, data, default_active(active_features))
         IN  [r EXCEPT !.active =
                  IF active_features = None THEN None ELSE Some(r.active)]

(***************************************************************************)
(* The Feature object under any sequence of calls by its owner.            *)
(***************************************************************************)
\* the record kept of a call: op(data, active) made after the call prev
Call(op, data, active, r) ==
    [ op |-> op, prev |-> call.op, data |-> data, active |-> active,
      outcome |-> r.outcome, value |-> r.value, invoked |-> r.invoked,
      log |-> r.log, active_after |-> r.active ]

NotRun ==
    /\ pc = "start"
    /\ args = None
    /\ todo = <<>>
    /\ stdout = <<>>

Init ==
    /\ \E name \in FeatureNames, enabled \in Optional(BOOLEAN),
          dependencies \in DepLists, transformer \in Transformers,
          description \in Descriptions :
            /\ feature = Feature(name, enabled, dependencies, transformer,
                                 description)
            /\ ctor_enabled = enabled
    /\ lastToggle = "none"
    /\ call = [ op |-> "none", prev |-> "none", data |-> None, active |-> None,
                outcome |-> "return", value |-> None, invoked |-> 0,
                log |-> <<>>, active_after |-> None ]
    /\ NotRun

Enable ==
    LET r == enable(feature)
    IN  /\ feature' = r.self
        /\ lastToggle' = "enable"
        /\ call' = Call("enable", None, None, r)
        /\ UNCHANGED <<ctor_enabled, scriptVars>>

Disable ==
    LET r == disable(feature)
    IN  /\ feature' = r.self
        /\ lastToggle' = "disable"
        /\ call' = Call("disable", None, None, r)
        /\ UNCHANGED <<ctor_enabled, scriptVars>>

IsAvailable ==
    \E active_features \in ActiveSets :
        LET r == is_available(feature, active_features)
        IN  /\ feature' = r.self
            /\ call' = Call("is_available", None, Some(active_features),
                            [r EXCEPT !.active = Some(r.active)])
            /\ UNCHANGED <<ctor_enabled, lastToggle, scriptVars>>

Apply ==
    \E data \in Data, active_features \in Optional(ActiveSets) :
        LET r == apply(feature, data, active_features)
        IN  /\ feature' = r.self
            /\ call' = Call("apply", data, active_features, r)
            /\ UNCHANGED <<ctor_enabled, lastToggle, scriptVars>>

Next == Enable \/ Disable \/ IsAvailable \/ Apply

Spec == Init /\ [][Next]_vars

(***************************************************************************)
(* myscript.py: one run of main(argv).                                     *)
(***************************************************************************)
DefaultRepeat == 1   \* --repeat's default
max_lines == 10      \* read_file's default max_lines

Names == {"World", "Ada"}
RepeatValues == (0 - MinRepeat) .. MaxRepeat
NumberLists == {<<>>, <<1, 2>>, <<5>>}

\* the files of the file system, by path: None when the path does not exist
Paths == {"missing.txt", "notes.txt", "long.txt"}
FileLines(path) ==
    CASE path = "missing.txt" -> None
      [] path = "notes.txt" -> Some(<<"first", "second">>)
      [] path = "long.txt" -> Some([i \in 1 .. (max_lines + 1) |-> ToString(i)])

\* the command lines: each option given or not
CommandLines ==
    [ name : Optional(Names), repeat : Optional(RepeatValues),
      numbers : Optional(NumberLists), file : Optional(Paths),
      verbose : BOOLEAN ]

\* parse_args: the Namespace, each absent option at its default
parse_args(argv) ==
    [ name |-> IF argv.name = None THEN "World" ELSE argv.name[1],
      repeat |-> IF argv.repeat = None THEN DefaultRepeat ELSE argv.repeat[1],
      numbers |-> argv.numbers,
      file |-> argv.file,
      verbose |-> argv.verbose ]

max(a, b) == IF a >= b THEN a ELSE b

\* range(n): 0, 1, ..., n - 1; empty when n <= 0
range(n) == [i \in 1 .. n |-> i - 1]

\* the iterator of greet's loop: range(max(1, repeat))
greet_range(repeat) == range(max(1, repeat))

\* f"Hello, {name}!"
greeting(name) == "Hello, " \o name \o "!"

RECURSIVE sum(_)
sum(numbers) ==
    IF numbers = <<>> THEN 0 ELSE Head(numbers) + sum(Tail(numbers))

\* add_numbers
add_numbers(numbers) == sum(numbers)

\* the lines read_file prints: none for a missing file, else the first
\* max_lines lines
read_file(path) ==
    LET p == FileLines(path)
    IN  IF p = None THEN <<>>
        ELSE SubSeq(p[1], 1, IF Len(p[1]) < max_lines THEN Len(p[1])
                                                     ELSE max_lines)

InitScript ==
    /\ feature = Feature("uppercase", None, <<>>, "None", "")
    /\ ctor_enabled = None
    /\ lastToggle = "none"
    /\ call = [ op |-> "none", prev |-> "none", data |-> None, active |-> None,
                outcome |-> "return", value |-> None, invoked |-> 0,
                log |-> <<>>, active_after |-> None ]
    /\ NotRun

\* main: args = parse_args(argv), setup_logging, entry of greet
Parse ==
    /\ pc = "start"
    /\ \E argv \in CommandLines :
         /\ args' = Some(parse_args(argv))
         /\ todo' = greet_range(parse_args(argv).repeat)
    /\ pc' = "greet"
    /\ UNCHANGED <<stdout, featureVars>>

\* one iteration of greet's loop
GreetPrint ==
    /\ pc = "greet"
    /\ todo # <<>>
    /\ stdout' = Append(stdout, greeting(args[1].name))
    /\ todo' = Tail(todo)
    /\ UNCHANGED <<pc, args, featureVars>>

\* greet returns
GreetReturn ==
    /\ pc = "greet"
    /\ todo = <<>>
    /\ pc' = "numbers"
    /\ UNCHANGED <<args, todo, stdout, featureVars>>

\* "if args.numbers:" and its body
Numbers ==
    /\ pc = "numbers"
    /\ stdout' =
         IF args[1].numbers # None /\ args[1].numbers[1] # <<>>
         THEN Append(stdout, "Sum of numbers: "
                             \o ToString(add_numbers(args[1].numbers[1])) \o ".0")
         ELSE stdout
    /\ pc' = "file"
    /\ UNCHANGED <<args, todo, featureVars>>

\* "if args.file:" and its body, then return 0
File ==
    /\ pc = "file"
    /\ stdout' =
         IF args[1].file # None THEN stdout \o read_file(args[1].file[1])
         ELSE stdout
    /\ pc' = "done"
    /\ UNCHANGED <<args, todo, featureVars>>

NextScript == Parse \/ GreetPrint \/ GreetReturn \/ Numbers \/ File

SpecScript == InitScript /\ [][NextScript]_vars

(***************************************************************************)
(* Properties.                                                             *)
(***************************************************************************)
\* the active set of the recorded call, a missing one read as empty
CallActive == IF call.active = None THEN {} ELSE call.active[1]

DepsSatisfied ==
    \A i \in DOMAIN feature.dependencies : feature.dependencies[i] \in CallActive

\* the recorded call's transformer, called on the recorded data, raises cls
TransformerRaises(cls) ==
    /\ feature.transformer # "None"
    /\ transformer_call(feature.transformer, call.data) = Raises(cls)

TransformerReturns ==
    /\ feature.transformer # "None"
    /\ transformer_call(feature.transformer, call.data).outcome = "return"

ReturnedUnchanged == call.outcome = "return" /\ call.value = call.data

AppliedWhenReady == call.op = "apply" /\ feature.enabled /\ DepsSatisfied

\* C1 as stated: apply never fails.  On an enabled feature whose
\* dependencies are all active, whatever the transformer raises, apply
\* returns the original data and nothing is raised to the caller.
C1_ApplyNeverFails ==
    /\ call.op = "apply" => call.outcome = "return"
    /\ AppliedWhenReady /\ (\E cls \in {"Exception", "BaseException"} :
                               TransformerRaises(cls))
          => ReturnedUnchanged

\* C1 amended: on an enabled feature whose dependencies are all active and
\* whose transformer raises an instance of Exception, apply returns the
\* original data and nothing is raised to the caller; apply raises only an
\* exception of the transformer that is no instance of Exception.
C1_ApplyCatchesException ==
    /\ AppliedWhenReady /\ TransformerRaises("Exception")
          => ReturnedUnchanged /\ call.invoked = 1
    /\ call.op = "apply" /\ call.outcome = "raise"
          => AppliedWhenReady /\ TransformerRaises("BaseException")
             /\ call.value = "BaseException"

C1_Witness ==
    /\ AppliedWhenReady
    /\ feature.dependencies # <<>>
    /\ feature.transformer = "strict_upper"
    /\ call.data = IntVal(42)
    /\ TransformerRaises("Exception")
    /\ ReturnedUnchanged

\* C2: on a disabled feature apply returns the data unchanged, for any data,
\* any active set (or none), any dependencies and transformer, and does not
\* call the transformer.
C2_DisabledIsIdentity ==
    call.op = "apply" /\ ~feature.enabled
        => ReturnedUnchanged /\ call.invoked = 0

C2_Witness ==
    /\ call.op = "apply"
    /\ ~feature.enabled
    /\ feature.transformer = "to_upper"
    /\ feature.dependencies = <<>>
    /\ call.active = None
    /\ call.data = StrVal(<<"h","e","l","l","o">>)
    /\ call.value = StrVal(<<"h","e","l","l","o">>)

\* C3: on an enabled feature with a dependency that is not in the active
\* set, apply returns the data unchanged and does not call the transformer.
C3_UnavailableIsIdentity ==
    /\ call.op = "apply"
    /\ feature.enabled
    /\ feature.dependencies # <<>>
    /\ \E i \in DOMAIN feature.dependencies :
           feature.dependencies[i] \notin CallActive
    => ReturnedUnchanged /\ call.invoked = 0

C3_Witness ==
    /\ call.op = "apply"
    /\ feature.enabled
    /\ feature.name = "dependent"
    /\ feature.dependencies = <<"uppercase">>
    /\ feature.transformer = "bracket"
    /\ call.active = Some({})
    /\ call.data = StrVal(<<"d","a","t","a">>)
    /\ call.value = StrVal(<<"d","a","t","a">>)

\* C4: is_available returns true exactly when every entry of dependencies
\* is in the active set: always for an empty dependencies list, and the same
\* for every list with the same entries in any order and multiplicity.
C4_AvailableIffAllDeps ==
    call.op = "is_available" =>
        /\ call.outcome = "return"
        /\ call.value = DepsSatisfied
        /\ feature.dependencies = <<>> => call.value = TRUE
        /\ \A other \in DepLists :
               Range(other) = Range(feature.dependencies) =>
                   is_available([feature EXCEPT !.dependencies = other],
                                CallActive).value = call.value

C4_Witness ==
    /\ call.op = "is_available"
    /\ feature.dependencies = <<"dependent", "uppercase">>
    /\ call.active = Some({"dependent"})
    /\ call.value = FALSE

\* C5: on an enabled feature whose dependencies are all active and whose
\* transformer returns normally on the data, apply returns the transformer's
\* result and has called the transformer once.
C5_ReturnsTransformerResult ==
    AppliedWhenReady /\ TransformerReturns =>
        /\ call.outcome = "return"
        /\ call.value = transformer_call(feature.transformer, call.data).value
        /\ call.invoked = 1

C5_Witness ==
    /\ AppliedWhenReady
    /\ feature.name = "dependent"
    /\ feature.dependencies = <<"uppercase">>
    /\ feature.transformer = "bracket"
    /\ call.active = Some({"uppercase"})
    /\ call.data = StrVal(<<"d","a","t","a">>)
    /\ call.value = StrVal(<<"[","d","a","t","a","]">>)
    /\ call.invoked = 1

\* C6: apply without an active set does what apply with the empty set does:
\* enabled with a dependency it returns the data unchanged, enabled with no
\* dependency it calls the transformer.
C6_MissingActiveIsEmpty ==
    call.op = "apply" /\ call.active = None =>
        /\ LET r == apply(feature, call.data, Some({}))
           IN  /\ call.outcome = r.outcome
               /\ call.value = r.value
               /\ call.invoked = r.invoked
               /\ call.log = r.log
        /\ feature.enabled /\ feature.dependencies # <<>>
              => ReturnedUnchanged /\ call.invoked = 0
        /\ feature.enabled /\ feature.dependencies = <<>>
              /\ feature.transformer # "None"
              => call.invoked = 1

C6_Witness ==
    /\ call.op = "apply"
    /\ call.active = None
    /\ feature.enabled
    /\ feature.dependencies = <<"uppercase">>
    /\ feature.transformer = "to_upper"
    /\ call.data = StrVal(<<"h","e","l","l","o">>)
    /\ ReturnedUnchanged

\* C7: a call of apply or is_available leaves every field of the Feature
\* and the caller's active set as they were, on every branch; enabled
\* changes only in a call of enable or disable.
C7_ApplyAndIsAvailableFrame ==
    [][ /\ call'.op \in {"apply", "is_available"} =>
              /\ feature' = feature
              /\ call'.active_after = call'.active
        /\ feature'.enabled # feature.enabled =>
              call'.op \in {"enable", "disable"} ]_vars

C7_Witness ==
    /\ AppliedWhenReady
    /\ TransformerRaises("Exception")
    /\ call.active = Some({"uppercase"})
    /\ call.active_after = Some({"uppercase"})
    /\ call.log # <<>>
    /\ call.log[Len(call.log)].level = "error"

\* C8: a Feature constructed without an enabled value starts disabled (with
\* one, as given), and after any calls enabled is true exactly when the
\* most recent of the enable and disable calls was enable.
C8_EnabledIsLastToggle ==
    /\ lastToggle = "none" =>
          feature.enabled = (IF ctor_enabled = None THEN FALSE
                             ELSE ctor_enabled[1])
    /\ lastToggle = "enable" => feature.enabled
    /\ lastToggle = "disable" => ~feature.enabled

C8_Witness ==
    /\ ctor_enabled = None
    /\ lastToggle = "enable"
    /\ call.op = "apply"
    /\ call.prev = "enable"
    /\ feature.transformer = "to_upper"
    /\ call.data = StrVal(<<"h","e","l","l","o">>)
    /\ call.value = StrVal(<<"H","E","L","L","O">>)

\* C9: enable and disable can be called in every state and return
\* normally, and a call of enable right after a call of enable (of disable
\* after disable) leaves every field of the Feature as the first left it.
C9_ToggleIdempotentTotal ==
    /\ [](ENABLED Enable /\ ENABLED Disable)
    /\ [](call.op \in {"enable", "disable"} => call.outcome = "return")
    /\ [][ /\ call.op = "enable" /\ call'.op = "enable" => feature' = feature
           /\ call.op = "disable" /\ call'.op = "disable" => feature' = feature
       ]_vars

C9_Witness ==
    /\ call.op = "enable"
    /\ call.prev = "enable"
    /\ feature.enabled

\* C10 as stated: greet prints the greeting repeat times for every integer
\* repeat, none for a repeat of 0 or less.
C10_GreetPrintsRepeatTimes ==
    pc = "numbers" =>
        /\ Len(stdout) = max(0, args[1].repeat)
        /\ \A i \in DOMAIN stdout : stdout[i] = greeting(args[1].name)

====
